---- MODULE Spec2Model ----
(***************************************************************************)
(* A model of the IRC client of osm/irc: the outbound framer (Sendf,       *)
(* Privmsg) and the helpers (ReclaimNick, Nick, Whois, ...) of core.go,    *)
(* the session state machine (Connect, loop, reconnect) of conn.go, the    *)
(* parser as the test table of core.go pins it, and the asynchronous       *)
(* handlers the read loop dispatches to.                                   *)
(*                                                                         *)
(* A character is a one-letter string, except "CR" and "LF" which stand    *)
(* for the two bytes of the line terminator.                               *)
(***************************************************************************)
EXTENDS Integers, Sequences, FiniteSets, TLC

VARIABLES
    nick,         \* c.nick: the configured nick
    user,         \* c.user
    realName,     \* c.realName
    addr,         \* c.addr: "" or the address to dial
    conn,         \* c.conn: NilConn or the transport
    currentNick,  \* c.currentNick
    quit,         \* TRUE while a value is offered on the c.quit channel
    pc,           \* where the goroutine that called Connect stands
    result,       \* what the outermost Connect returned
    stack,        \* the active calls of reconnect, innermost last: [i, rt]
    tasks,        \* handler invocations the hub has started and that are still running
    infoMu,       \* c.infoMu: "free" or "held"
    out,          \* the lines the latest step wrote to the transport
    ev,           \* the latest step of the Connect goroutine
    failStreak,   \* reconnect attempts that failed since the read loop was last entered
    lastSleep,    \* the latest sleep of reconnect: [k: the attempt it precedes, d: seconds]
    lastNick,     \* the argument of the latest call of c.Nick
    call          \* the latest call of the outbound helper API

vars == <<nick, user, realName, addr, conn, currentNick, quit, pc, result, stack,
          tasks, infoMu, out, ev, failStreak, lastSleep, lastNick, call>>

Nil == "nil"
NoErr == "ok"

-----------------------------------------------------------------------------------------------------------------------------------------------------
(* Text.  A text is the sequence of its runs [c, n], n >= 1 copies of the  *)
(* character c, no two neighbouring runs of the same character: "foo__" is *)
(* <<[c |-> "f", n |-> 1], [c |-> "o", n |-> 2], [c |-> "_", n |-> 2]>>.   *)

\* n copies of the character ch
Rep(ch, n) == IF n = 0 THEN <<>> ELSE <<[c |-> ch, n |-> n]>>

\* len(t)
RECURSIVE TLen(_)
TLen(t) == IF t = <<>> THEN 0 ELSE t[1].n + TLen(Tail(t))

\* a + b
Cat(a, b) ==
    IF a = <<>> THEN b
    ELSE IF b = <<>> THEN a
    ELSE LET x == a[Len(a)]
             y == b[1]
         IN  IF x.c = y.c
             THEN SubSeq(a, 1, Len(a) - 1) \o <<[c |-> x.c, n |-> x.n + y.n]>>
                     \o Tail(b)
             ELSE a \o b

\* the text of a sequence of characters
RECURSIVE Lit(_)
Lit(chars) ==
    IF chars = <<>> THEN <<>> ELSE Cat(Rep(chars[1], 1), Lit(Tail(chars)))

\* t[0:k]
RECURSIVE Take(_, _)
Take(t, k) ==
    IF k <= 0 \/ t = <<>> THEN <<>>
    ELSE IF t[1].n >= k THEN Rep(t[1].c, k)
    ELSE <<t[1]>> \o Take(Tail(t), k - t[1].n)

\* t[k:]
RECURSIVE Drop(_, _)
Drop(t, k) ==
    IF t = <<>> THEN <<>>
    ELSE IF k <= 0 THEN t
    ELSE IF t[1].n > k THEN <<[c |-> t[1].c, n |-> t[1].n - k]>> \o Tail(t)
    ELSE Drop(Tail(t), k - t[1].n)

\* strings.Index(t, ch) + 1: the place of the first ch in t, 0 when there is none
RECURSIVE IndexOf(_, _)
IndexOf(t, ch) ==
    IF t = <<>> THEN 0
    ELSE IF t[1].c = ch THEN 1
    ELSE LET k == IndexOf(Tail(t), ch)
         IN  IF k = 0 THEN 0 ELSE t[1].n + k

\* strings.Split(t, " ") of the text cur + t: a cut at every single space,
\* empty pieces kept
RECURSIVE SplitFrom(_, _)
SplitFrom(t, cur) ==
    IF t = <<>> THEN <<cur>>
    ELSE IF t[1].c = " "
    THEN <<cur>> \o [i \in 1..(t[1].n - 1) |-> <<>>] \o SplitFrom(Tail(t), <<>>)
    ELSE SplitFrom(Tail(t), Cat(cur, <<t[1]>>))

Split(t) == SplitFrom(t, <<>>)

\* strings.Join(ws, " ")
RECURSIVE Join(_)
Join(ws) ==
    IF ws = <<>> THEN <<>>
    ELSE IF Len(ws) = 1 THEN ws[1]
    ELSE Cat(ws[1], Cat(Rep(" ", 1), Join(Tail(ws))))

eol == Lit(<<"CR", "LF">>)

HasSuffix(s, t) ==
    /\ TLen(s) >= TLen(t)
    /\ Drop(s, TLen(s) - TLen(t)) = t

\* the literal parts of the format strings
TxtUSER == Lit(<<"U", "S", "E", "R", " ">>)
TxtStars == Lit(<<" ", "*", " ", "*", " ", ":">>)
TxtNICK == Lit(<<"N", "I", "C", "K", " ">>)
TxtPRIVMSG == Lit(<<"P", "R", "I", "V", "M", "S", "G", " ">>)
TxtColon == Lit(<<" ", ":">>)
TxtQUIT == Lit(<<"Q", "U", "I", "T", " ", ":">>)
TxtPONG == Lit(<<"P", "O", "N", "G", " ">>)
TxtWHOIS == Lit(<<"W", "H", "O", "I", "S", " ">>)

\* a + b + c ...
RECURSIVE Concat(_)
Concat(ts) == IF ts = <<>> THEN <<>> ELSE Cat(ts[1], Concat(Tail(ts)))

-----------------------------------------------------------------------------
(* The framer: core.go, Sendf and Privmsg.                                 *)

\* the length limit of core.go:27 and core.go:50,68
Limit == 510

\* core.go:23-29: the bytes Sendf writes for the formatted text t
Frame(t) ==
    LET s == Cat(t, eol)
    IN  IF TLen(s) > Limit THEN Cat(Take(s, Limit), eol) ELSE s

\* core.go:46
PrivmsgCmd(target) == Concat(<<TxtPRIVMSG, target, TxtColon>>)

\* core.go:67-78: the loop over the words, from word i on; msgs are the
\* payloads completed so far and msg the one being built
RECURSIVE PrivmsgLoop(_, _, _, _, _)
PrivmsgLoop(cmd, words, i, msgs, msg) ==
    IF i > Len(words) THEN msgs
    ELSE LET w == words[i]
             flush == \/ TLen(cmd) + TLen(msg) + TLen(w) + 1 >= Limit
                      \/ i = Len(words)
             msgs1 == IF flush THEN Append(msgs, msg) ELSE msgs
             msg1 == IF flush THEN <<>> ELSE msg
             msg2 == IF msg1 # <<>> THEN Concat(<<msg1, Rep(" ", 1), w>>) ELSE w
         IN  PrivmsgLoop(cmd, words, i + 1, msgs1, msg2)

\* core.go:40-87: the payloads Privmsg passes to Sendf, in order
PrivmsgPayloads(target, message) ==
    LET cmd == PrivmsgCmd(target)
    IN  IF TLen(cmd) + TLen(message) <= Limit THEN <<message>>
        ELSE PrivmsgLoop(cmd, Split(message), 1, <<>>, <<>>)

-----------------------------------------------------------------------------
(* The transport.  c.conn is NilConn or a transport: open is FALSE once     *)
(* Close was called on it, uses counts the Connect calls that reached      *)
(* their handshake on it.                                                  *)

NilConn == [isNil |-> TRUE, open |-> FALSE, uses |-> 0]

NewTransport == [isNil |-> FALSE, open |-> TRUE, uses |-> 0]

\* a Connect call reaches its handshake on transport t
Used(t) == [t EXCEPT !.uses = IF t.uses < 2 THEN t.uses + 1 ELSE 2]

\* net.Conn.Close
Closed(t) == [t EXCEPT !.open = FALSE]

\* core.go:18-36: the results Sendf can have for the formatted text t when
\* c.conn is c: the lines written and the error returned.  A write to an
\* open transport succeeds or fails (the peer is gone); a write to a closed
\* transport fails.
SendfOutcomes(c, t) ==
    IF c = NilConn THEN {[lines |-> <<>>, err |-> FALSE]}
    ELSE IF c.open THEN {[lines |-> <<Frame(t)>>, err |-> FALSE],
                         [lines |-> <<>>, err |-> TRUE]}
    ELSE {[lines |-> <<>>, err |-> TRUE]}

-----------------------------------------------------------------------------
(* Errors Connect returns.                                                 *)

ErrNoConn == "no conn or addr found"
ErrNoNick == "no nick set"
ErrDial == "dial error"
ErrWrite == "write error"
ErrRead == "read error"
ErrGiveUp == "unable to reconnect, giving up"

\* conn.go:68: the first delay, in seconds
InitialDelay == 5

\* conn.go:71: the attempts of one call of reconnect
MaxAttempts == 10

\* conn.go:16-24: the configuration checks of Connect
ConfigErrNoNickCheck(c, a, n) ==
    IF c = NilConn /\ a = "" THEN ErrNoConn ELSE NoErr

ConfigErr(c, a, n) ==
    IF c = NilConn /\ a = "" THEN ErrNoConn
    ELSE IF n = <<>> THEN ErrNoNick
    ELSE NoErr

\* conn.go:88: rt *= 2
BackoffAdd(rt) == rt + InitialDelay

Backoff(rt) == rt * 2

\* conn.go:68,71: the frame of a fresh call of reconnect
NewFrame == [i |-> 0, rt |-> InitialDelay]

\* Connect, called by the innermost reconnect of stk (by the owner when stk
\* is empty), returns err.  conn.go:77-91: reconnect returns nil on nil;
\* on an error it doubles rt and goes on to the next attempt, and after the
\* last attempt it returns ErrGiveUp to the loop (conn.go:143) whose Connect
\* (conn.go:58) returns it to the reconnect below.  fails counts the calls
\* of Connect that returned an error to a reconnect.
RECURSIVE Unwind(_, _, _)
Unwind(stk, err, fails) ==
    IF stk = <<>>
    THEN [pc |-> "done", stack |-> <<>>, result |-> err, fails |-> fails]
    ELSE LET f == stk[Len(stk)]
             rest == SubSeq(stk, 1, Len(stk) - 1)
             g == [i |-> f.i + 1, rt |-> Backoff(f.rt)]
         IN  IF err = NoErr THEN Unwind(rest, NoErr, fails)
             ELSE IF g.i < MaxAttempts
             THEN [pc |-> "sleep", stack |-> Append(rest, g), result |-> Nil,
                   fails |-> fails + 1]
             ELSE Unwind(rest, ErrGiveUp, fails + 1)

\* the Connect goroutine returns err from the Connect called under stk
Return(stk, err) ==
    LET u == Unwind(stk, err, 0)
    IN  /\ pc' = u.pc
        /\ stack' = u.stack
        /\ result' = u.result
        /\ failStreak' = failStreak + u.fails

-----------------------------------------------------------------------------
(* Inbound lines: the parser and the hub with its built-in handlers.       *)

Letters == {"A", "B", "C", "D", "E", "F", "G", "H", "I", "J", "K", "L", "M",
            "N", "O", "P", "Q", "R", "S", "T", "U", "V", "W", "X", "Y", "Z",
            "a", "b", "c", "d", "e", "f", "g", "h", "i", "j", "k", "l", "m",
            "n", "o", "p", "q", "r", "s", "t", "u", "v", "w", "x", "y", "z"}

Digits == {"0", "1", "2", "3", "4", "5", "6", "7", "8", "9"}

\* a command token: a word of letters or a numeric of three digits
IsCommand(tok) ==
    /\ tok # <<>>
    /\ \/ \A i \in 1..Len(tok) : tok[i].c \in Letters
       \/ TLen(tok) = 3 /\ \A i \in 1..Len(tok) : tok[i].c \in Digits

\* the nil *Message
NilMsg == [isNil |-> TRUE]

\* strings.Fields(t): the pieces of t between spaces, the empty ones dropped
Fields(t) == SelectSeq(Split(t), LAMBDA w : w # <<>>)

\* the name of a prefix name!user@host
PrefixName(pre) ==
    LET b == IndexOf(pre, "!")
        a == IndexOf(pre, "@")
    IN  IF b > 0 THEN Take(pre, b - 1)
        ELSE IF a > 0 THEN Take(pre, a - 1)
        ELSE pre

\* parse(l) for a line l without its terminator: [err, msg].  The blank line
\* gives no message and no error (messageTests "empty"), a line without a
\* command token an error ("malformed"); the parameters are the fields that
\* follow the command, and Params is their join with single spaces: the
\* "motd" line, with two spaces in a row, gives Params "foo :- * foo" and
\* four parameters.
parse(l) ==
    IF l = <<>> THEN [err |-> FALSE, msg |-> NilMsg]
    ELSE LET fs == Fields(l)
             hasPrefix == l[1].c = ":"
             name == IF hasPrefix /\ fs # <<>> THEN PrefixName(Drop(fs[1], 1)) ELSE <<>>
             rest == IF hasPrefix /\ fs # <<>> THEN Tail(fs) ELSE fs
         IN  IF rest # <<>> /\ IsCommand(rest[1])
             THEN [err |-> FALSE,
                   msg |-> [Raw |-> l, Name |-> name, Command |-> rest[1],
                            Params |-> Join(Tail(rest)),
                            ParamsArray |-> Tail(rest)]]
             ELSE [err |-> TRUE, msg |-> NilMsg]

Cmd433 == Lit(<<"4", "3", "3">>)
CmdPING == Lit(<<"P", "I", "N", "G">>)

\* hub.Send(name, m): the handler invocations started for the event name.
\* The built-in subscriptions are the "nickname in use" handler on 433 and
\* the keepalive handler on PING; nothing is subscribed to the wildcard.
HubSend(name, m) ==
    IF name = Cmd433 THEN <<[h |-> "433", st |-> "start", arg |-> <<>>]>>
    ELSE IF name = CmdPING THEN <<[h |-> "PING", st |-> "start", arg |-> m.Params]>>
    ELSE <<>>

Remove(seq, k) == SubSeq(seq, 1, k - 1) \o SubSeq(seq, k + 1, Len(seq))

\* the invocations in flight are kept in the order of Rank: which of them
\* runs next does not depend on the order they were started in
Rank(t) == IF t.h = "433" THEN (IF t.st = "start" THEN 1 ELSE 2) ELSE 3

RECURSIVE Insert(_, _)
Insert(seq, t) ==
    IF seq = <<>> THEN <<t>>
    ELSE IF Rank(t) <= Rank(seq[1]) THEN <<t>> \o seq
    ELSE <<seq[1]>> \o Insert(Tail(seq), t)

RECURSIVE InsertAll(_, _)
InsertAll(seq, ts) ==
    IF ts = <<>> THEN seq ELSE InsertAll(Insert(seq, ts[1]), Tail(ts))

\* the wildcard event name
Wildcard == Lit(<<"*">>)

\* conn.go:126-137: what one iteration of the loop does with the line l it
\* has read: after a parse error it publishes nothing and continues;
\* otherwise it publishes the message under m.Command and then under "*".
\* parse returns a nil message for the blank line, and m.Command of a nil
\* message is a nil pointer dereference: the goroutine panics.
LoopBodyWildcardFirst(l) ==
    LET p == parse(l)
    IN  IF p.err THEN [panic |-> FALSE, pubs |-> <<>>]
        ELSE IF p.msg = NilMsg THEN [panic |-> TRUE, pubs |-> <<>>]
        ELSE [panic |-> FALSE,
              pubs |-> <<[name |-> Wildcard, m |-> p.msg],
                         [name |-> p.msg.Command, m |-> p.msg]>>]

LoopBodyTwice(l) ==
    LET p == parse(l)
    IN  IF p.err THEN [panic |-> FALSE, pubs |-> <<>>]
        ELSE IF p.msg = NilMsg THEN [panic |-> TRUE, pubs |-> <<>>]
        ELSE [panic |-> FALSE,
              pubs |-> <<[name |-> p.msg.Command, m |-> p.msg],
                         [name |-> p.msg.Command, m |-> p.msg]>>]

LoopBody(l) ==
    LET p == parse(l)
    IN  IF p.err THEN [panic |-> FALSE, pubs |-> <<>>]
        ELSE IF p.msg = NilMsg THEN [panic |-> TRUE, pubs |-> <<>>]
        ELSE [panic |-> FALSE,
              pubs |-> <<[name |-> p.msg.Command, m |-> p.msg],
                         [name |-> Wildcard, m |-> p.msg]>>]

\* the handler invocations the publishes pubs start, in order
RECURSIVE HubSendAll(_)
HubSendAll(pubs) ==
    IF pubs = <<>> THEN <<>>
    ELSE HubSend(pubs[1].name, pubs[1].m) \o HubSendAll(Tail(pubs))

\* the lines the server sends in this model
Line433 == Lit(<<":", "s", " ", "4", "3", "3", " ", "*">>)
LinePING == Lit(<<"P", "I", "N", "G", " ", ":", "x">>)
LineMalformed == Lit(<<"f", "o", "o", ":">>)
LineWelcome == Lit(<<":", "s", " ", "0", "0", "1", " ", "f", "o", "o">>)
LineBlank == <<>>
ServerLines == {Line433, LinePING, LineMalformed, LineWelcome}
\* the lines among them that start no handler
QuietLines == {LineMalformed, LineWelcome}

-----------------------------------------------------------------------------
(* Bounds of the model.                                                    *)

\* nested calls of reconnect, against a server whose lines start handlers
MaxDepth == 1
\* nested calls of reconnect, against a server whose lines start none
MaxDepthQuiet == 2
\* handler invocations in flight
MaxTasks == 2
\* underscores a nick may carry when a further 433 is delivered
MaxCollisions == 2

-----------------------------------------------------------------------------
(* The session: conn.go.                                                   *)

NoSleep == [k |-> 0, d |-> 0]
NoCall == [op |-> "none"]

Foo == Lit(<<"f", "o", "o">>)
Bar == Lit(<<"b", "a", "r">>)
Host == "irc.example.net:6667"

\* the clients NewClient can build: [conn, addr, nick, user, realName]
Configs ==
    { [conn |-> NewTransport, addr |-> "", nick |-> Foo, user |-> Bar, realName |-> Bar],
      [conn |-> NilConn, addr |-> Host, nick |-> Foo, user |-> <<>>, realName |-> <<>>],
      [conn |-> NewTransport, addr |-> Host, nick |-> Foo, user |-> <<>>, realName |-> <<>>],
      [conn |-> NilConn, addr |-> "", nick |-> Foo, user |-> Bar, realName |-> Bar],
      [conn |-> NewTransport, addr |-> "", nick |-> <<>>, user |-> Bar, realName |-> Bar],
      [conn |-> NilConn, addr |-> Host, nick |-> <<>>, user |-> <<>>, realName |-> <<>>] }

Init ==
    /\ \E c \in Configs :
          /\ conn = c.conn
          /\ addr = c.addr
          /\ nick = c.nick
          /\ user = c.user
          /\ realName = c.realName
    /\ currentNick = <<>>
    /\ quit = FALSE
    /\ pc = "idle"
    /\ result = Nil
    /\ stack = <<>>
    /\ tasks = <<>>
    /\ infoMu = "free"
    /\ out = <<>>
    /\ ev = "init"
    /\ failStreak = 0
    /\ lastSleep = NoSleep
    /\ lastNick = <<>>
    /\ call = NoCall

\* conn.go:13-45: Connect up to the point where it dials or sends, called
\* under the reconnect calls stk
ConnectBody(stk) ==
    LET e == ConfigErr(conn, addr, nick)
    IN  /\ IF e # NoErr
           THEN /\ Return(stk, e)
                /\ ev' = e
                /\ UNCHANGED <<currentNick, user, realName>>
           ELSE /\ currentNick' = nick
                /\ user' = IF user = <<>> THEN nick ELSE user
                /\ realName' = IF realName = <<>> THEN nick ELSE realName
                /\ pc' = IF conn = NilConn THEN "dial" ELSE "user"
                /\ stack' = stk
                /\ ev' = "connect"
                /\ UNCHANGED <<result, failStreak>>
        /\ out' = <<>>
        /\ UNCHANGED <<nick, addr, conn, quit, tasks, infoMu, lastNick, call>>

\* the owner calls Connect
Connect ==
    /\ pc = "idle"
    /\ ConnectBody(<<>>)
    /\ UNCHANGED lastSleep

\* conn.go:73-77: reconnect sleeps rt and calls Connect
Attempt ==
    /\ pc = "sleep"
    /\ LET f == stack[Len(stack)]
       IN  lastSleep' = [k |-> f.i + 1, d |-> f.rt]
    /\ ConnectBody(stack)

\* conn.go:41-45
Dial ==
    /\ pc = "dial"
    /\ \/ /\ conn' = NewTransport
          /\ pc' = "user"
          /\ ev' = "dial"
          /\ UNCHANGED <<stack, result, failStreak>>
       \/ /\ Return(stack, ErrDial)
          /\ ev' = ErrDial
          /\ UNCHANGED conn
    /\ out' = <<>>
    /\ UNCHANGED <<nick, user, realName, addr, currentNick, quit, tasks, infoMu,
                   lastSleep, lastNick, call>>

\* conn.go:47-50
SendUser ==
    /\ pc = "user"
    /\ \E o \in SendfOutcomes(conn, Concat(<<TxtUSER, user, TxtStars, realName>>)) :
          /\ out' = o.lines
          /\ IF o.err
             THEN Return(stack, ErrWrite) /\ ev' = "userfail"
             ELSE /\ pc' = "nick"
                  /\ ev' = "user"
                  /\ UNCHANGED <<stack, result, failStreak>>
    /\ conn' = Used(conn)
    /\ UNCHANGED <<nick, user, realName, addr, currentNick, quit, tasks, infoMu,
                   lastSleep, lastNick, call>>

\* conn.go:52-58: the NICK of the handshake; on success the loop is entered
SendNick ==
    /\ pc = "nick"
    /\ \E o \in SendfOutcomes(conn, Cat(TxtNICK, currentNick)) :
          /\ out' = o.lines
          /\ lastNick' = currentNick
          /\ IF o.err
             THEN Return(stack, ErrWrite) /\ ev' = "nickfail"
             ELSE /\ pc' = "loop"
                  /\ ev' = "nick"
                  /\ failStreak' = 0
                  /\ UNCHANGED <<stack, result>>
    /\ UNCHANGED <<nick, user, realName, addr, conn, currentNick, quit, tasks,
                   infoMu, lastSleep, call>>

\* conn.go:101-107,145-148: the select at the top of the loop
LoopSelect ==
    /\ pc = "loop"
    /\ IF quit
       THEN /\ quit' = FALSE
            /\ conn' = Closed(conn)
            /\ Return(stack, NoErr)
            /\ ev' = "quit"
       ELSE /\ pc' = "read"
            /\ ev' = "select"
            /\ UNCHANGED <<quit, conn, stack, result, failStreak>>
    /\ out' = <<>>
    /\ UNCHANGED <<nick, user, realName, addr, currentNick, tasks, infoMu,
                   lastSleep, lastNick, call>>

\* conn.go:109-137: a line is read, parsed and published
ReadLineOf(lines) ==
    /\ pc = "read"
    /\ \E l \in lines :
          LET b == LoopBody(l)
              spawned == HubSendAll(b.pubs)
          IN  /\ Len(tasks) + Len(spawned) <= MaxTasks
              /\ (b.pubs # <<>> /\ b.pubs[1].name = Cmd433)
                    => TLen(currentNick) < TLen(nick) + MaxCollisions
              /\ tasks' = InsertAll(tasks, spawned)
              /\ ev' = IF b.panic THEN "panic"
                       ELSE IF b.pubs = <<>> THEN "badline" ELSE "line"
              /\ pc' = IF b.panic THEN "panic" ELSE "loop"
    /\ out' = <<>>
    /\ UNCHANGED <<nick, user, realName, addr, conn, currentNick, quit, stack,
                   result, infoMu, failStreak, lastSleep, lastNick, call>>

\* conn.go:114-117,141-143 and 62-68: end of stream; reconnect closes and
\* discards the transport and starts its attempts
ReadEOFUpTo(depth) ==
    /\ pc = "read"
    /\ Len(stack) < depth
    /\ conn' = NilConn
    /\ stack' = Append(stack, NewFrame)
    /\ pc' = "sleep"
    /\ ev' = "eof"
    /\ out' = <<>>
    /\ lastSleep' = NoSleep
    /\ UNCHANGED <<nick, user, realName, addr, currentNick, quit, result, tasks,
                   infoMu, failStreak, lastNick, call>>

\* conn.go:119-122: any other read error is returned
ReadErr ==
    /\ pc = "read"
    /\ Return(stack, ErrRead)
    /\ ev' = "readerr"
    /\ out' = <<>>
    /\ UNCHANGED <<nick, user, realName, addr, conn, currentNick, quit, tasks,
                   infoMu, lastSleep, lastNick, call>>

\* core.go:141-144: the owner calls Quit while Connect is running
QuitMessage == Lit(<<"b", "y", "e">>)

Quit ==
    /\ pc \notin {"idle", "done"}
    /\ ~quit
    /\ \E o \in SendfOutcomes(conn, Cat(TxtQUIT, QuitMessage)) : out' = o.lines
    /\ quit' = TRUE
    /\ UNCHANGED <<nick, user, realName, addr, conn, currentNick, pc, result,
                   stack, tasks, infoMu, ev, failStreak, lastSleep, lastNick, call>>

-----------------------------------------------------------------------------
(* The built-in handlers, each invocation a goroutine of its own.          *)

\* the "nickname in use" handler, first half: it takes the identity lock
\* and appends an underscore to currentNick
NickInUseStart ==
    /\ infoMu = "free"
    /\ \E k \in 1..Len(tasks) :
          /\ tasks[k].h = "433"
          /\ tasks[k].st = "start"
          /\ tasks' = Insert(Remove(tasks, k), [tasks[k] EXCEPT !.st = "send"])
    /\ infoMu' = "held"
    /\ currentNick' = Cat(currentNick, Rep("_", 1))
    /\ out' = <<>>
    /\ UNCHANGED <<nick, user, realName, addr, conn, quit, pc, result, stack, ev,
                   failStreak, lastSleep, lastNick, call>>

\* the "nickname in use" handler, second half: c.Nick(c.currentNick), whose
\* error is dropped, and the release of the lock
NickInUseSend ==
    /\ \E k \in 1..Len(tasks) :
          /\ tasks[k].h = "433"
          /\ tasks[k].st = "send"
          /\ tasks' = Remove(tasks, k)
    /\ \E o \in SendfOutcomes(conn, Cat(TxtNICK, currentNick)) : out' = o.lines
    /\ lastNick' = currentNick
    /\ infoMu' = "free"
    /\ UNCHANGED <<nick, user, realName, addr, conn, currentNick, quit, pc, result,
                   stack, ev, failStreak, lastSleep, call>>

\* the keepalive handler: PONG with the argument of the PING
PingHandler ==
    /\ \E k \in 1..Len(tasks) :
          /\ tasks[k].h = "PING"
          /\ tasks' = Remove(tasks, k)
          /\ \E o \in SendfOutcomes(conn, Cat(TxtPONG, tasks[k].arg)) : out' = o.lines
    /\ UNCHANGED <<nick, user, realName, addr, conn, currentNick, quit, pc, result,
                   stack, infoMu, ev, failStreak, lastSleep, lastNick, call>>

ReadLine == ReadLineOf(ServerLines)

ReadEOF == ReadEOFUpTo(MaxDepth)

ReadQuietLine == ReadLineOf(QuietLines)

ReadEOFQuiet == ReadEOFUpTo(MaxDepthQuiet)

Next ==
    \/ Connect
    \/ Attempt
    \/ Dial
    \/ SendUser
    \/ SendNick
    \/ LoopSelect
    \/ ReadLine
    \/ ReadEOF
    \/ ReadErr
    \/ Quit
    \/ NickInUseStart
    \/ NickInUseSend
    \/ PingHandler

Spec == Init /\ [][Next]_vars

\* the session against a server that sends no line a built-in handler is
\* subscribed to
NextReconnect ==
    \/ Connect
    \/ Attempt
    \/ Dial
    \/ SendUser
    \/ SendNick
    \/ LoopSelect
    \/ ReadQuietLine
    \/ ReadEOFQuiet
    \/ ReadErr
    \/ Quit

SpecReconnect == Init /\ [][NextReconnect]_vars

-----------------------------------------------------------------------------
(* ReclaimNick, called by the owner (or by a handler) at any time while    *)
(* the session and the "nickname in use" handler run.                      *)

\* core.go:120-122: ReclaimNick is called and gets the identity lock
ReclaimNickLock ==
    /\ call.op \in {"none", "ReclaimNick"}
    /\ call.op = "ReclaimNick" => call.st = "returned"
    /\ infoMu = "free"
    /\ infoMu' = "held"
    /\ call' = [op |-> "ReclaimNick", st |-> "locked", handed |-> <<>>]
    /\ out' = <<>>
    /\ UNCHANGED <<nick, user, realName, addr, conn, currentNick, quit, pc, result,
                   stack, tasks, ev, failStreak, lastSleep, lastNick>>

\* core.go:125-129: the texts ReclaimNick passes to Sendf when the
\* configured nick is n and currentNick is cur
ReclaimWhoisAlways(n, cur) == <<Cat(TxtWHOIS, n)>>

ReclaimWhois(n, cur) == IF n # cur THEN <<Cat(TxtWHOIS, n)>> ELSE <<>>

\* core.go:124-133: the comparison, the Whois whose error is dropped, and
\* the release of the lock; handed is what was passed to Sendf
ReclaimNickSend ==
    /\ call.op = "ReclaimNick"
    /\ call.st = "locked"
    /\ LET handed == ReclaimWhois(nick, currentNick)
       IN  /\ IF handed # <<>>
              THEN \E o \in SendfOutcomes(conn, handed[1]) : out' = o.lines
              ELSE out' = <<>>
           /\ call' = [call EXCEPT !.st = "returned", !.handed = handed]
    /\ infoMu' = "free"
    /\ UNCHANGED <<nick, user, realName, addr, conn, currentNick, quit, pc, result,
                   stack, tasks, ev, failStreak, lastSleep, lastNick>>

\* the lines of a server that answers the handshake and rejects nicks
ReclaimLines == {Line433, LineWelcome}

ReadReclaimLine == ReadLineOf(ReclaimLines)

NextReclaim ==
    \/ Connect
    \/ Attempt
    \/ Dial
    \/ SendUser
    \/ SendNick
    \/ LoopSelect
    \/ ReadReclaimLine
    \/ ReadEOF
    \/ ReadErr
    \/ NickInUseStart
    \/ NickInUseSend
    \/ ReclaimNickLock
    \/ ReclaimNickSend

SpecReclaim == Init /\ [][NextReclaim]_vars

-----------------------------------------------------------------------------
(* The keepalive: the session against a server that sends PING.            *)

LinePINGHost == Lit(<<"P", "I", "N", "G", " ", ":", "i", "r", "c">>)

KeepaliveLines == {LinePING, LinePINGHost, LineWelcome}

ReadKeepaliveLine == ReadLineOf(KeepaliveLines)

NextKeepalive ==
    \/ Connect
    \/ Attempt
    \/ Dial
    \/ SendUser
    \/ SendNick
    \/ LoopSelect
    \/ ReadKeepaliveLine
    \/ ReadEOF
    \/ ReadErr
    \/ Quit
    \/ PingHandler

SpecKeepalive == Init /\ [][NextKeepalive]_vars

-----------------------------------------------------------------------------
(* The outbound helper API, called by the owner while the session runs,    *)
(* before it and after it.  Every helper formats a text and passes it to   *)
(* Sendf, whose nil check and write are two steps: the Connect goroutine   *)
(* can close and discard the transport between them.                       *)

ApiOps == {"Sendf", "Nick", "Whois", "Notice", "Mode", "Privmsg"}

TxtNOTICE == Lit(<<"N", "O", "T", "I", "C", "E", " ">>)
TxtMODE == Lit(<<"M", "O", "D", "E", " ">>)
Chan == Lit(<<"#", "c">>)
Hello == Lit(<<"h", "i">>)

\* core.go:40-52,94-97,104-112,135-138: the text the helper op passes to
\* Sendf, for a short message
ApiText(op) ==
    IF op = "Nick" THEN Cat(TxtNICK, Bar)
    ELSE IF op = "Whois" THEN Cat(TxtWHOIS, Foo)
    ELSE IF op = "Notice" THEN Concat(<<TxtNOTICE, Bar, TxtColon, Hello>>)
    ELSE IF op = "Mode" THEN Concat(<<TxtMODE, Chan, Lit(<<" ", "+", "o", " ">>), Bar>>)
    ELSE IF op = "Privmsg" THEN Cat(PrivmsgCmd(Chan), PrivmsgPayloads(Chan, Hello)[1])
    ELSE Hello

\* core.go:16-20: a helper is called; Sendf returns nil at once when c.conn
\* is nil
ApiCheck ==
    /\ pc # "panic"
    /\ call.op \in ApiOps \cup {"none"}
    /\ call.op \in ApiOps => call.st = "returned"
    /\ \E op \in ApiOps :
          call' = [op |-> op, st |-> IF conn = NilConn THEN "returned" ELSE "checked",
                   err |-> FALSE]
    /\ out' = <<>>
    /\ UNCHANGED <<nick, user, realName, addr, conn, currentNick, quit, pc, result,
                   stack, tasks, infoMu, ev, failStreak, lastSleep, lastNick>>

\* core.go:22-36: Sendf formats the text and calls c.conn.Write.  When
\* reconnect has set c.conn to nil since the check, the unsynchronised read
\* of c.conn gives nil, and the call on it panics, or the transport that was
\* checked, which reconnect has closed: the write fails.
ApiWrite ==
    /\ pc # "panic"
    /\ call.op \in ApiOps
    /\ call.st = "checked"
    /\ IF conn = NilConn
       THEN /\ \E st \in {"panic", "returned"} :
                  call' = [call EXCEPT !.st = st, !.err = (st = "returned")]
            /\ out' = <<>>
       ELSE \E o \in SendfOutcomes(conn, ApiText(call.op)) :
               /\ out' = o.lines
               /\ call' = [call EXCEPT !.st = "returned", !.err = o.err]
    /\ UNCHANGED <<nick, user, realName, addr, conn, currentNick, quit, pc, result,
                   stack, tasks, infoMu, ev, failStreak, lastSleep, lastNick>>

\* the lines of a server that sends a blank line and a malformed one
ApiLines == {LineBlank, LineMalformed, LineWelcome}

ReadApiLine == ReadLineOf(ApiLines)

NextApi ==
    \/ Connect
    \/ Attempt
    \/ Dial
    \/ SendUser
    \/ SendNick
    \/ LoopSelect
    \/ ReadApiLine
    \/ ReadEOF
    \/ ReadErr
    \/ Quit
    \/ ApiCheck
    \/ ApiWrite

SpecApi == Init /\ [][NextApi]_vars

-----------------------------------------------------------------------------
(* The outbound helpers on an open transport: one call of Sendf or of      *)
(* Privmsg, its input drawn in the initial state.                          *)

\* words of a drawn message
MaxWords == 3

\* the lengths of a drawn word, around the limit; 0 gives two spaces in a row
WordLens == {0, 1, 250, 496, 497, 600}

\* the lengths of a drawn Sendf text, around the limit
TextLens == {0, 1, 100, 507, 508, 509, 510, 511, 600}

Targets == {Lit(<<"#", "c">>), Lit(<<"n">>)}

WordChars == <<"a", "b", "c", "d", "e">>

\* the message whose i-th word is lens[i] copies of the i-th letter
MessageOf(lens) == Join([i \in 1..Len(lens) |-> Rep(WordChars[i], lens[i])])

SendInputs ==
    {[op |-> "Sendf", target |-> <<>>, text |-> Rep("x", n), failAt |-> 0] :
        n \in TextLens}
    \cup
    {[op |-> "Privmsg", target |-> t, text |-> MessageOf(lens), failAt |-> f] :
        t \in Targets,
        lens \in UNION {[1..k -> WordLens] : k \in 1..MaxWords},
        f \in 0..2}

InitSend ==
    /\ conn = NewTransport
    /\ addr = ""
    /\ nick = Foo
    /\ user = Bar
    /\ realName = Bar
    /\ currentNick = <<>>
    /\ quit = FALSE
    /\ pc = "idle"
    /\ result = Nil
    /\ stack = <<>>
    /\ tasks = <<>>
    /\ infoMu = "free"
    /\ out = <<>>
    /\ ev = "init"
    /\ failStreak = 0
    /\ lastSleep = NoSleep
    /\ lastNick = <<>>
    /\ \E in \in SendInputs :
          call = [op |-> in.op, target |-> in.target, text |-> in.text,
                  failAt |-> in.failAt, done |-> FALSE, handed |-> <<>>,
                  err |-> FALSE]

\* core.go:16-37: the owner calls Sendf with the text
DoSendf ==
    /\ call.op = "Sendf"
    /\ ~call.done
    /\ \E o \in SendfOutcomes(conn, call.text) :
          /\ out' = o.lines
          /\ call' = [call EXCEPT !.done = TRUE, !.handed = <<call.text>>,
                                  !.err = o.err]
    /\ UNCHANGED <<nick, user, realName, addr, conn, currentNick, quit, pc, result,
                   stack, tasks, infoMu, ev, failStreak, lastSleep, lastNick>>

\* core.go:40-87: the owner calls Privmsg; the write number failAt fails,
\* none when failAt is 0, and the first failure ends the call
DoPrivmsg ==
    /\ call.op = "Privmsg"
    /\ ~call.done
    /\ LET cmd == PrivmsgCmd(call.target)
           ps == PrivmsgPayloads(call.target, call.text)
           fails == call.failAt \in 1..Len(ps)
           n == IF fails THEN call.failAt ELSE Len(ps)
           written == IF fails THEN n - 1 ELSE n
       IN  /\ out' = [i \in 1..written |-> Frame(Cat(cmd, ps[i]))]
           /\ call' = [call EXCEPT !.done = TRUE,
                                   !.handed = [i \in 1..n |-> Cat(cmd, ps[i])],
                                   !.err = fails]
    /\ UNCHANGED <<nick, user, realName, addr, conn, currentNick, quit, pc, result,
                   stack, tasks, infoMu, ev, failStreak, lastSleep, lastNick>>

NextSend ==
    \/ DoSendf
    \/ DoPrivmsg

SpecSend == InitSend /\ [][NextSend]_vars

-----------------------------------------------------------------------------
(* The inbound path alone: the loop reads the lines a server sends, parses *)
(* each and publishes it; the lines are drawn in the initial state.        *)

\* lines the server sends
MaxLines == 2

\* the "motd" line of messageTests, two spaces in a row in its parameters
LineMotd == Lit(<<":", "s", " ", "3", "7", "2", " ", "f", " ", ":", "-", " ", " ", "f">>)
\* the "join" line: a prefix with a user and a host
LineJoin == Lit(<<":", "f", "!", "b", "@", "h", " ", "J", "O", "I", "N", " ", ":", "#", "c">>)
\* a command without parameters
LineAway == Lit(<<"A", "W", "A", "Y">>)

ParseLines == {Line433, LinePING, LineMalformed, LineWelcome, LineBlank,
               LineMotd, LineJoin, LineAway}

InitParse ==
    /\ conn = NewTransport
    /\ addr = ""
    /\ nick = Foo
    /\ user = Bar
    /\ realName = Bar
    /\ currentNick = Foo
    /\ quit = FALSE
    /\ pc = "read"
    /\ result = Nil
    /\ stack = <<>>
    /\ tasks = <<>>
    /\ infoMu = "free"
    /\ out = <<>>
    /\ ev = "select"
    /\ failStreak = 0
    /\ lastSleep = NoSleep
    /\ lastNick = Foo
    /\ \E ls \in UNION {[1..k -> ParseLines] : k \in 1..MaxLines} :
          call = [op |-> "loop", lines |-> ls, k |-> 0, pubs |-> <<>>,
                  res |-> [err |-> FALSE, msg |-> NilMsg], panic |-> FALSE]

\* conn.go:109-137: one iteration of the loop on the next line; pubs are the
\* publishes made so far, res what parse returned for the line
DoLoopLine ==
    /\ call.op = "loop"
    /\ ~call.panic
    /\ call.k < Len(call.lines)
    /\ LET l == call.lines[call.k + 1]
           b == LoopBody(l)
       IN  call' = [call EXCEPT !.k = call.k + 1,
                                !.pubs = call.pubs \o b.pubs,
                                !.res = parse(l),
                                !.panic = b.panic]
    /\ UNCHANGED <<nick, user, realName, addr, conn, currentNick, quit, pc, result,
                   stack, tasks, infoMu, out, ev, failStreak, lastSleep, lastNick>>

NextParse == DoLoopLine

SpecParse == InitParse /\ [][NextParse]_vars

-----------------------------------------------------------------------------
(* Claims about the framer, checked under SpecSend.                        *)

\* C1: every line Sendf writes is at most 510 characters long, its CR-LF
\* included, and ends with exactly one CR-LF.
C1_LineWithinLimit ==
    \A i \in 1..Len(out) :
        /\ TLen(out[i]) <= Limit
        /\ HasSuffix(out[i], eol)
        /\ LET body == Take(out[i], TLen(out[i]) - TLen(eol))
           IN  \A j \in 1..Len(body) : body[j].c \notin {"CR", "LF"}

\* the payload of a written Privmsg line: the line without the command
\* prefix and without the terminator
PayloadOf(line, cmd) == Drop(Take(line, TLen(line) - TLen(eol)), TLen(cmd))

\* a call of Privmsg has returned without an error
PrivmsgReturned ==
    /\ call.op = "Privmsg"
    /\ call.done
    /\ ~call.err

\* C6: when the prefix plus the message exceeds 510 characters, the payloads
\* of the lines Privmsg sends, joined with single spaces in the order sent,
\* are the message.
C6_SplitLosesNothing ==
    (/\ PrivmsgReturned
     /\ TLen(PrivmsgCmd(call.target)) + TLen(call.text) > Limit)
    => Join([i \in 1..Len(out) |-> PayloadOf(out[i], PrivmsgCmd(call.target))])
          = call.text

\* C7: every line Privmsg hands to Sendf for a message that is not empty
\* fits the 510-character budget, is written without being shortened, and
\* has a payload that is not empty.
C7_LinesFitBudget ==
    (PrivmsgReturned /\ call.text # <<>>)
    => \A i \in 1..Len(call.handed) :
          /\ TLen(call.handed[i]) <= Limit
          /\ out[i] = Cat(call.handed[i], eol)
          /\ TLen(call.handed[i]) > TLen(PrivmsgCmd(call.target))

-----------------------------------------------------------------------------
(* Claims about the session.                                               *)

\* the line Sendf writes for a short text
Line(t) == Cat(t, eol)

\* C2: once 10 reconnect attempts in a row have failed, Connect has
\* returned the "unable to reconnect" failure and nothing more is attempted.
C2_BudgetIsTerminal ==
    failStreak >= MaxAttempts => (pc = "done" /\ result = ErrGiveUp)

\* C3, as claimed: the delay between attempt k and attempt k+1, the sleep
\* that precedes attempt k+1, is 5s * 2^(k-1).
C3_DelayBetweenAttempts ==
    lastSleep.k >= 2 => lastSleep.d = InitialDelay * 2^(lastSleep.k - 2)

\* C3, amended: the sleep that precedes attempt k of a run of reconnect is
\* 5s * 2^(k-1), for k = 1..10: 5s before the first attempt, and 5s * 2^k
\* between attempt k and attempt k+1.
C3_DelayBeforeAttempt ==
    /\ lastSleep.k \in 0..MaxAttempts
    /\ lastSleep.k >= 1 => lastSleep.d = InitialDelay * 2^(lastSleep.k - 1)

\* the tenth attempt of a run has slept 2560 seconds
C3_Witness == lastSleep = [k |-> 10, d |-> 2560]

\* C4: reconnect is entered only on end of stream, and a read that returns
\* any other error ends the session: the outermost Connect returns it.
C4_ReadErrorIsFatal ==
    [][/\ Len(stack') > Len(stack) => ev' = "eof"
       /\ (pc = "read" /\ ev' = "readerr") => (pc' = "done" /\ result' = ErrRead)
      ]_vars

\* C5: with Quit called, the loop ends at its next iteration, at the latest
\* when the pending read returns: the transport is closed, Connect returns
\* no error and no reconnect attempt is made.
C5_QuitEndsSession ==
    [][(quit /\ pc \in {"loop", "read"} /\ pc' # pc)
          => \/ pc = "read" /\ pc' = "loop"
             \/ pc' = "done" /\ result' = NoErr /\ ~conn'.open
      ]_vars

\* Connect is called and runs its checks in this step
ConnectCalled ==
    /\ pc \in {"idle", "sleep"}
    /\ <<pc, stack, result>>' # <<pc, stack, result>>

\* C8: Connect called with neither a transport nor an address, or with no
\* nick, returns an error at once: nothing is dialed or written, the loop is
\* not entered, and currentNick, user and realName stay as they were.
C8_ConfigErrorFailsFast ==
    [][(/\ ConnectCalled
        /\ (conn = NilConn /\ addr = "") \/ nick = <<>>)
          => /\ ev' \in {ErrNoConn, ErrNoNick}
             /\ pc' \in {"done", "sleep"}
             /\ pc = "idle" => (pc' = "done" /\ result' = ev')
             /\ out' = <<>>
             /\ UNCHANGED <<conn, currentNick, user, realName, tasks>>
      ]_vars

\* Connect has returned the missing-nick error to its caller although a
\* transport was given
C8_Witness ==
    /\ pc = "done"
    /\ result = ErrNoNick
    /\ conn # NilConn
    /\ currentNick = <<>>

\* C9: every Connect that has a transport writes USER <user> * * :<realName>
\* and then NICK <configured nick> before the loop reads; when the USER
\* write fails, NICK is not sent and the loop is not entered.
C9_HandshakeFirst ==
    [][/\ (pc = "user" /\ pc' # pc)
          => \/ /\ ev' = "user"
                /\ out' = <<Line(Concat(<<TxtUSER, user, TxtStars, realName>>))>>
                /\ pc' = "nick"
             \/ /\ ev' = "userfail"
                /\ out' = <<>>
                /\ pc' \in {"sleep", "done"}
       /\ (pc = "nick" /\ pc' = "loop") => out' = <<Line(Cat(TxtNICK, nick))>>
       /\ (pc' = "nick" /\ pc # "nick") => pc = "user"
       /\ (pc' = "loop" /\ pc # "loop") => pc \in {"nick", "read"}
       /\ (pc' = "read" /\ pc # "read") => pc = "loop"
      ]_vars

\* C10: the send of every "nickname in use" handler passes to c.Nick the nick
\* attempted just before it with one underscore appended.
C10_CollisionChain ==
    [][(infoMu = "held" /\ infoMu' = "free")
          => lastNick' = Cat(lastNick, Rep("_", 1))
      ]_vars

-----------------------------------------------------------------------------
(* Claims about the identity fields.                                       *)

\* ReclaimNick returns in this step
ReclaimNickReturns ==
    /\ call.op = "ReclaimNick"
    /\ call.st = "locked"
    /\ call'.st = "returned"

-----------------------------------------------------------------------------
(* Claims about the keepalive, checked under SpecKeepalive.                *)

\* the arguments of the PING lines of the server
PingArgs == {Lit(<<":", "x">>), Lit(<<":", "i", "r", "c">>)}

-----------------------------------------------------------------------------
(* Claims about the helper API and the lines read, checked under SpecApi.  *)

\* a helper call returns in this step
ApiReturns ==
    /\ call'.op \in ApiOps
    /\ call'.st = "returned"
    /\ call' # call

\* C13: while no session runs and no transport is open (before Connect,
\* after the session has ended), c.conn is nil, and a helper call writes
\* nothing and returns no error.
C13_NoTransportNoOp ==
    [][(ApiReturns /\ pc \in {"idle", "done"} /\ ~conn.open)
          => /\ conn = NilConn
             /\ out' = <<>>
             /\ ~call'.err
      ]_vars

\* C14: reading a line that does not parse, or a blank line, starts no
\* handler and leaves the loop running.
C14_BadLineIsSkipped ==
    [][(pc = "read" /\ pc' # pc /\ ev' \notin {"eof", "readerr", "line"})
          => /\ pc' = "loop"
             /\ tasks' = tasks
      ]_vars

\* C19: a helper call that runs while the loop closes and discards the
\* transport writes one line or does nothing; it never calls Write on the
\* nil c.conn.
C19_SendfSafeWithReconnect ==
    call.op \in ApiOps => call.st # "panic"

-----------------------------------------------------------------------------
(* Claims about the parser and the publishes, checked under SpecParse.     *)

\* the text of the line l that follows the command and its separating
\* space, character for character
VerbatimParams(l) ==
    LET rest == IF l[1].c = ":" /\ IndexOf(l, " ") > 0
                THEN Drop(l, IndexOf(l, " ")) ELSE l
        sp == IndexOf(rest, " ")
    IN  IF sp = 0 THEN <<>> ELSE Drop(rest, sp)

\* the loop has parsed a line into a message
ParsedMessage ==
    /\ call.op = "loop"
    /\ call.k > 0
    /\ ~call.res.err
    /\ call.res.msg # NilMsg

\* C15: Params of a parsed line is the text that followed its command and
\* the separating space, unchanged, and ParamsArray is Params cut at every
\* single space, empty for empty Params.
C15_ParamsVerbatim ==
    ParsedMessage
    => LET msg == call.res.msg
       IN  /\ msg.Params = VerbatimParams(call.lines[call.k])
           /\ msg.ParamsArray = IF msg.Params = <<>> THEN <<>> ELSE Split(msg.Params)

\* the publishes the loop owes for the lines ls: for every line that parses
\* into a message, its command name and then the wildcard
RECURSIVE OwedPublishes(_)
OwedPublishes(ls) ==
    IF ls = <<>> THEN <<>>
    ELSE LET p == parse(ls[1])
         IN  (IF p.err \/ p.msg = NilMsg THEN <<>>
              ELSE <<[name |-> p.msg.Command, m |-> p.msg],
                     [name |-> Wildcard, m |-> p.msg]>>)
             \o OwedPublishes(Tail(ls))

\* C16: at every point of the loop the publishes made are, for the lines
\* read so far and in the order they were read, two per message: one under
\* its command name and then one under "*".
C16_PublishedTwiceInOrder ==
    call.op = "loop" => call.pubs = OwedPublishes(SubSeq(call.lines, 1, call.k))

\* a PING and then a 433 were read: four publishes, PING, "*", 433, "*"
C16_Witness ==
    /\ call.op = "loop"
    /\ call.k = 2
    /\ Len(call.pubs) = 4
    /\ <<call.pubs[1].name, call.pubs[2].name>> = <<CmdPING, Wildcard>>
    /\ <<call.pubs[3].name, call.pubs[4].name>> = <<Cmd433, Wildcard>>
    /\ call.pubs[3].m.Raw = Line433

-----------------------------------------------------------------------------
(* Claims about currentNick and the transport across reconnects.           *)

\* C17: whenever no NICK is about to be sent (Connect is not between its
\* seeding of currentNick and its NICK, and no handler holds the identity
\* lock), currentNick is the argument of the latest NICK command the client
\* sent, or still empty because Connect never ran.
C17_CurrentNickWasSent ==
    (pc \in {"loop", "read", "sleep", "done"} /\ infoMu = "free")
    => currentNick \in {<<>>, lastNick}

\* C18: while a handler or ReclaimNick holds the identity lock, nobody else
\* writes currentNick (the holder writes it in the step that takes the lock).
C18_WritesUnderLock ==
    [][(infoMu = "held" /\ infoMu' = "held") => currentNick' = currentNick]_vars

\* C20: no transport carries the handshake of more than one call of
\* Connect: an attempt that follows a failed one dials a fresh transport.
C20_FreshTransportPerAttempt ==
    conn.uses <= 1

====
